---- MODULE Spec2Model ----
(***************************************************************************)
(* Model of AirQualityService (src/service/AirQualityService.ts, the       *)
(* second class of the file, lines 150-286): nearest-station resolution    *)
(* (getNearbyStations) and the sequential fallback reading fetch           *)
(* (getStationValueWithFallback); and of fetchData of the three App        *)
(* components that call the service.                                       *)
(*                                                                         *)
(* Numbers.  A JavaScript number is modelled as a record: NaN, or a        *)
(* finite value `val`.  Coordinates are fixed-point, in units of 1e-4      *)
(* degree; distances are in whole metres.  Strings that are parsed are     *)
(* sequences of one-character strings.                                     *)
(***************************************************************************)
EXTENDS Integers, Sequences, FiniteSets, TLC

VARIABLES
    nsPc,          \* getNearbyStations: "idle", "awaiting" (Promise.all), "done"
    nsArg,         \* the maxDistance argument of the call, or "undefined"
    locState,      \* getCurrentLocation: "none", "permission", "position", "ok", "rejected"
    locValue,      \* what getCurrentLocation's promise settled with
    locRaised,     \* the failure raised inside getCurrentLocation, before its catch
    stState,       \* axios.get('/stations'): "none", "pending", "ok", "rejected"
    stValue,       \* what the station request's promise settled with
    settleOrder,   \* the order in which the two promises settled
    distanceCalls, \* number of calculateDistance calls made by the call
    nsOutcome,     \* how the call settled
    fbPc,          \* getStationValueWithFallback: "idle", "loop", "awaiting", "done"
    fbStations,    \* its argument
    fbIdx,         \* position of the for-of iterator (1-based)
    inFlight,      \* dustboy_ids with a /value request in flight
    fetchLog,      \* dustboy_ids requested, in request order
    responses,     \* how each request of fetchLog settled
    lastError,     \* the local lastError
    fbOutcome,     \* how the call settled
    appVariant,    \* which App this is: "stationsOnly", "closestStation", "fallbackReading"
    triggered,     \* number of fetchData invocations so far
    refresh,       \* per invocation: the await it is at, and its nearbyStations
    airData,       \* App state airData
    appError,      \* App state error
    isLoading,     \* App state isLoading
    lastWrite,     \* which invocation set App state last, and the newest one then
    shown          \* the nearbyStations array airData was built from

nsVars == <<nsPc, nsArg, locState, locValue, locRaised, stState, stValue, settleOrder,
            distanceCalls, nsOutcome>>
fbVars == <<fbPc, fbStations, fbIdx, inFlight, fetchLog, responses, lastError,
            fbOutcome>>
appVars == <<appVariant, triggered, refresh, airData, appError, isLoading, lastWrite, shown>>
vars == <<nsVars, fbVars, appVars>>

-----------------------------------------------------------------------------
(* Bounds of the model *)

\* longest station directory / ranked list considered
MaxStations == 3

\* number of fetchData invocations of one App considered
MaxRefreshes == 2

-----------------------------------------------------------------------------
(* JavaScript values *)

\* every value carries its type, so that values of different types compare
NaN == [type |-> "number", nan |-> TRUE]
Num(n) == [type |-> "number", nan |-> FALSE, val |-> n]
Undefined == [type |-> "undefined"]
Null == [type |-> "null"]
Arr(items) == [type |-> "array", items |-> items]

\* new Error(message); the message is held as the text of its literal
NewError(message) == [type |-> "object", isError |-> TRUE, message |-> [text |-> message]]

\* a rejection with a value that is not an Error instance
NonErrorThrown ==
    [type |-> "object", isError |-> FALSE, message |-> [text |-> "non-Error rejection"]]

\* the Error axios rejects with on a network failure or timeout
NetworkError(what) ==
    [type |-> "object", isError |-> TRUE, message |-> [text |-> "Network Error"],
     request |-> what]

\* the settlement of an async call
Resolved(v) == [kind |-> "ok", value |-> v]
Rejected(e) == [kind |-> "error", error |-> e]
Pending == [kind |-> "none"]

-----------------------------------------------------------------------------
(* parseFloat *)

DigitChars == {"0", "1", "2", "3", "4", "5", "6", "7", "8", "9"}

DigitVal(c) ==
    CASE c = "0" -> 0 [] c = "1" -> 1 [] c = "2" -> 2 [] c = "3" -> 3
      [] c = "4" -> 4 [] c = "5" -> 5 [] c = "6" -> 6 [] c = "7" -> 7
      [] c = "8" -> 8 [] c = "9" -> 9

RECURSIVE SkipSpaces(_)
SkipSpaces(s) ==
    IF s # <<>> /\ Head(s) = " " THEN SkipSpaces(Tail(s)) ELSE s

\* the longest prefix of s made of decimal digits
RECURSIVE TakeDigits(_)
TakeDigits(s) ==
    IF s # <<>> /\ Head(s) \in DigitChars
    THEN <<Head(s)>> \o TakeDigits(Tail(s))
    ELSE <<>>

RECURSIVE DigitsValue(_)
DigitsValue(ds) ==
    IF ds = <<>> THEN 0
    ELSE DigitsValue(SubSeq(ds, 1, Len(ds) - 1)) * 10 + DigitVal(ds[Len(ds)])

\* units of a parsed coordinate per degree (1e-4 degree resolution)
UnitsPerDegree == 10 * 1000

\* the first four fraction digits, as a count of 1e-4 units
FracValue(ds) ==
    DigitsValue(SubSeq(ds \o <<"0", "0", "0", "0">>, 1, 4))

\* parseFloat(string): leading white space is skipped, then the longest prefix
\* that is a decimal literal (sign, digits, '.', digits) is converted; what
\* follows it is ignored; NaN when that prefix holds no digit.
parseFloat(s) ==
    LET t    == SkipSpaces(s)
        neg  == t # <<>> /\ Head(t) = "-"
        u    == IF t # <<>> /\ Head(t) \in {"+", "-"} THEN Tail(t) ELSE t
        ip   == TakeDigits(u)
        rest == SubSeq(u, Len(ip) + 1, Len(u))
        fp   == IF rest # <<>> /\ Head(rest) = "." THEN TakeDigits(Tail(rest)) ELSE <<>>
        mag  == DigitsValue(ip) * UnitsPerDegree + FracValue(fp)
    IN  IF ip = <<>> /\ fp = <<>> THEN NaN
        ELSE Num(IF neg THEN 0 - mag ELSE mag)

-----------------------------------------------------------------------------
(* Distance *)

EARTH_RADIUS_KM == 6371

\* 0.1 km, in metres
EXACT_MATCH_THRESHOLD == 100

\* the default value of getNearbyStations' maxDistance parameter, in km
DEFAULT_MAX_DISTANCE == 105

Abs(x) == IF x < 0 THEN 0 - x ELSE x

\* calculateDistance(lat1, lon1, lat2, lon2), in metres.  Any NaN argument
\* gives NaN.  For two points on one meridian (lon1 = lon2) the haversine
\* terms reduce to a = sin^2(dLat/2), c = |dLat|, so the result is
\* EARTH_RADIUS_KM * toRadians(|lat2 - lat1|); pi is taken as 355/113.  The
\* stations of the model share the user's meridian or have an unparsable
\* longitude.
calculateDistance(lat1, lon1, lat2, lon2) ==
    IF lat1.nan \/ lon1.nan \/ lat2.nan \/ lon2.nan THEN NaN
    ELSE LET arc == Abs(lat2.val - lat1.val) * EARTH_RADIUS_KM
             den == 113 * 180 * (UnitsPerDegree \div 1000)
         \* floor(arc * 355 / den), computed without leaving 32 bits
         IN  Num((arc \div den) * 355 + ((arc % den) * 355) \div den)

\* a <= b on JavaScript numbers, a in metres and b in km: false when a is NaN
WithinKm(a, km) == ~a.nan /\ ~km.nan /\ a.val <= km.val * 1000

-----------------------------------------------------------------------------
(* Inputs: what the external collaborators can answer *)

Chars(str) ==
    CASE str = "18.7890"  -> <<"1", "8", ".", "7", "8", "9", "0">>
      [] str = "18.8"     -> <<"1", "8", ".", "8">>
      [] str = "18.7766"  -> <<"1", "8", ".", "7", "7", "6", "6">>
      [] str = "19.5"     -> <<"1", "9", ".", "5">>
      [] str = "20.7883"  -> <<"2", "0", ".", "7", "8", "8", "3">>
      [] str = "N/A"      -> <<"N", "/", "A">>
      [] str = "98.9853"  -> <<"9", "8", ".", "9", "8", "5", "3">>
      [] str = " 98.9853" -> <<" ", "9", "8", ".", "9", "8", "5", "3">>
      [] str = ""         -> <<>>

\* (dustboy_lat, dustboy_lng) of the stations the directory can list: from the
\* user at (18.7883, 98.9853) they lie at 77 m, 1300 m (two of them, north and
\* south), 79 km and 222 km; two have a coordinate that does not parse.
StationCoords ==
    { <<"18.7890", "98.9853">>, <<"18.8", "98.9853">>, <<"18.7766", "98.9853">>,
      <<"19.5", "98.9853">>, <<"20.7883", " 98.9853">>,
      <<"N/A", "98.9853">>, <<"18.8", "">> }

\* a DustboyStation; the directory's i-th entry has dustboy_id i
Station(id, c) == [dustboy_id |-> id, dustboy_lat |-> c[1], dustboy_lng |-> c[2]]

\* the station arrays of length n
StationLists(n) ==
    { [i \in 1..n |-> Station(i, cs[i])] : cs \in [1..n -> StationCoords] }

\* response.data of GET /stations: an array, or nothing
DirectoryData ==
    {Undefined} \cup { Arr(l) : l \in UNION { StationLists(n) : n \in 0..MaxStations } }

\* the LocationObject of getCurrentPositionAsync: with coords, or without
UserLocations ==
    { [type |-> "object",
       coords |-> [type |-> "object", latitude |-> Num(187883), longitude |-> Num(989853)]],
      [type |-> "object", coords |-> Null] }

\* the maxDistance argument of a call (km); Undefined selects the default
MaxDistanceArgs == {Undefined, Num(1)}

-----------------------------------------------------------------------------
(* getNearbyStations: the resolution pass, lines 215-237 *)

\* stations.map(station => ({...station, distance: calculateDistance(...)})),
\* stations being the array's items
WithDistance(userLocation, stations) ==
    [i \in 1..Len(stations) |->
        [dustboy_id  |-> stations[i].dustboy_id,
         dustboy_lat |-> stations[i].dustboy_lat,
         dustboy_lng |-> stations[i].dustboy_lng,
         distance    |-> calculateDistance(userLocation.latitude,
                                           userLocation.longitude,
                                           parseFloat(Chars(stations[i].dustboy_lat)),
                                           parseFloat(Chars(stations[i].dustboy_lng)))]]

\* the filter predicate: station.distance <= maxDistance
KeepAll(station, maxDistance) == TRUE
KeepNotBeyond(station, maxDistance) ==
    station.distance.nan \/ WithinKm(station.distance, maxDistance)
Keep(station, maxDistance) == WithinKm(station.distance, maxDistance)

\* Array.prototype.filter with that predicate
RECURSIVE FilterWithin(_, _)
FilterWithin(seq, maxDistance) ==
    IF seq = <<>> THEN <<>>
    ELSE (IF Keep(Head(seq), maxDistance) THEN <<Head(seq)>> ELSE <<>>)
            \o FilterWithin(Tail(seq), maxDistance)

\* the comparator (a, b) => a.distance - b.distance; NaN when either is NaN
CompareUnstable(a, b) ==
    IF a.distance.nan \/ b.distance.nan THEN NaN
    ELSE Num(IF a.distance.val = b.distance.val THEN 1
             ELSE a.distance.val - b.distance.val)
Compare(a, b) ==
    IF a.distance.nan \/ b.distance.nan THEN NaN
    ELSE Num(a.distance.val - b.distance.val)

\* whether the sort places a after b: the comparator's result is > 0 (a NaN
\* result counts as +0)
After(a, b) == LET c == Compare(a, b) IN ~c.nan /\ c.val > 0

\* x inserted into a sorted sequence behind every element it does not precede
RECURSIVE InsertSorted(_, _)
InsertSorted(x, sorted) ==
    IF sorted = <<>> THEN <<x>>
    ELSE IF After(Head(sorted), x) THEN <<x>> \o sorted
    ELSE <<Head(sorted)>> \o InsertSorted(x, Tail(sorted))

\* Array.prototype.sort with that comparator: a stable sort (ECMAScript 2019)
RECURSIVE SortByDistance(_)
SortByDistance(seq) ==
    IF seq = <<>> THEN <<>>
    ELSE InsertSorted(seq[Len(seq)], SortByDistance(SubSeq(seq, 1, Len(seq) - 1)))

\* maxDistance: number = 105
EffectiveMaxDistance(arg) == IF arg = Undefined THEN Num(DEFAULT_MAX_DISTANCE) ELSE arg

\* !stations?.length
NoLengthMissingOnly(stations) == stations.type # "array"
NoLength(stations) == stations.type # "array" \/ Len(stations.items) = 0

NoStationsAvailable == NewError("No stations data available")

\* new Error(`No stations found within ${maxDistance} km`)
NoStationsInRangeDefault(maxDistance) ==
    [type |-> "object", isError |-> TRUE,
     message |-> [text |-> "No stations found within ${maxDistance} km",
                  maxDistance |-> Num(DEFAULT_MAX_DISTANCE)]]
NoStationsInRange(maxDistance) ==
    [type |-> "object", isError |-> TRUE,
     message |-> [text |-> "No stations found within ${maxDistance} km",
                  maxDistance |-> maxDistance]]

\* the try block after the await, as the settlement it leads to
ResolveNearby(userLocation, stations, maxDistance) ==
    IF NoLength(stations) THEN Rejected(NoStationsAvailable)
    ELSE IF userLocation.type # "object"
    THEN \* userLocation.latitude of something that is no object
         Rejected(NewError("TypeError: cannot read property 'latitude'"))
    ELSE LET nearbyStations ==
                 SortByDistance(FilterWithin(WithDistance(userLocation, stations.items),
                                             maxDistance))
         IN  IF Len(nearbyStations) = 0
             THEN Rejected(NoStationsInRange(maxDistance))
             ELSE Resolved(Arr(nearbyStations))

\* the number of calculateDistance calls of that block
DistanceCallsOf(userLocation, stations) ==
    IF NoLength(stations) \/ userLocation.type # "object" THEN 0
    ELSE Len(stations.items)

-----------------------------------------------------------------------------
(* getCurrentLocation, lines 181-206, and getNearbyStations, lines 208-244 *)

\* error instanceof Error ? error : new Error(fallbackMessage)
AsError(error, fallbackMessage) ==
    IF error.isError THEN error ELSE NewError(fallbackMessage)

LocationCatch(error) ==
    AsError(error, "An unexpected error occurred while getting location")

NearbyCatchWraps(error) ==
    NewError("An unexpected error occurred while finding nearby stations")
NearbyCatch(error) ==
    AsError(error, "An unexpected error occurred while finding nearby stations")

\* what a rejected external promise can carry
ExternalFailures(what) == {NetworkError(what), NonErrorThrown}

\* line 208-213: the call evaluates both elements of the array given to
\* Promise.all: getCurrentLocation runs to its first await (the permission
\* request is issued) and the station request is issued.
NsCall(arg) ==
    /\ nsPc = "idle"
    /\ nsPc' = "awaiting"
    /\ nsArg' = arg
    /\ locState' = "permission"
    /\ stState' = "pending"
    /\ UNCHANGED <<locValue, locRaised, stValue, settleOrder, distanceCalls, nsOutcome>>
    /\ UNCHANGED <<fbVars, appVars>>

\* lines 183-186: the permission request settles
LocPermission(status) ==
    /\ locState = "permission"
    /\ IF status = "granted"
       THEN /\ locState' = "position"
            /\ UNCHANGED <<locValue, locRaised, settleOrder>>
       ELSE /\ locState' = "rejected"
            /\ locRaised' = NewError("Location permission is required to find nearby stations")
            /\ locValue' = LocationCatch(locRaised')
            /\ settleOrder' = Append(settleOrder, "location")
    /\ UNCHANGED <<nsPc, nsArg, stState, stValue, distanceCalls, nsOutcome>>
    /\ UNCHANGED <<fbVars, appVars>>

\* lines 188-199: the position request is fulfilled
LocPosition(location) ==
    /\ locState = "position"
    /\ IF location.coords.type = "object"
       THEN /\ locState' = "ok"
            /\ locValue' = [type |-> "object",
                            latitude |-> location.coords.latitude,
                            longitude |-> location.coords.longitude]
            /\ UNCHANGED locRaised
       ELSE /\ locState' = "rejected"
            /\ locRaised' = NewError("Unable to get location coordinates")
            /\ locValue' = LocationCatch(locRaised')
    /\ settleOrder' = Append(settleOrder, "location")
    /\ UNCHANGED <<nsPc, nsArg, stState, stValue, distanceCalls, nsOutcome>>
    /\ UNCHANGED <<fbVars, appVars>>

\* lines 188, 200-205: the position request is rejected
LocPositionFails(error) ==
    /\ locState = "position"
    /\ locState' = "rejected"
    /\ locRaised' = error
    /\ locValue' = LocationCatch(error)
    /\ settleOrder' = Append(settleOrder, "location")
    /\ UNCHANGED <<nsPc, nsArg, stState, stValue, distanceCalls, nsOutcome>>
    /\ UNCHANGED <<fbVars, appVars>>

\* line 212: the station request is fulfilled with a response
StationsArrive(data) ==
    /\ stState = "pending"
    /\ stState' = "ok"
    /\ stValue' = [type |-> "object", data |-> data]
    /\ settleOrder' = Append(settleOrder, "stations")
    /\ UNCHANGED <<nsPc, nsArg, locState, locValue, locRaised, distanceCalls, nsOutcome>>
    /\ UNCHANGED <<fbVars, appVars>>

\* line 212: the station request is rejected
StationsFail(error) ==
    /\ stState = "pending"
    /\ stState' = "rejected"
    /\ stValue' = error
    /\ settleOrder' = Append(settleOrder, "stations")
    /\ UNCHANGED <<nsPc, nsArg, locState, locValue, locRaised, distanceCalls, nsOutcome>>
    /\ UNCHANGED <<fbVars, appVars>>

\* Promise.all is fulfilled when every element is
JoinedEither == locState = "ok" \/ stState = "ok"
Joined == locState = "ok" /\ stState = "ok"

\* what the destructuring of line 210 binds: [userLocation, {data: stations}]
BoundUserLocation == IF locState = "ok" THEN locValue ELSE Undefined
BoundStations == IF stState = "ok" THEN stValue.data ELSE Undefined

\* lines 210-237: the await of Promise.all is fulfilled and the try block runs
\* to its return or throw; a throw is caught at line 238 and rethrown
NsResume ==
    /\ nsPc = "awaiting"
    /\ Joined
    /\ LET r == ResolveNearby(BoundUserLocation, BoundStations,
                              EffectiveMaxDistance(nsArg))
       IN  nsOutcome' = IF r.kind = "error" THEN Rejected(NearbyCatch(r.error)) ELSE r
    /\ distanceCalls' = DistanceCallsOf(BoundUserLocation, BoundStations)
    /\ nsPc' = "done"
    /\ UNCHANGED <<nsArg, locState, locValue, locRaised, stState, stValue, settleOrder>>
    /\ UNCHANGED <<fbVars, appVars>>

\* Promise.all is rejected with the reason of the element that rejected first
FirstRejection ==
    LET rejectedOnes == SelectSeq(settleOrder,
                            LAMBDA w : IF w = "location" THEN locState = "rejected"
                                       ELSE stState = "rejected")
    IN  IF Head(rejectedOnes) = "location" THEN locValue ELSE stValue

\* lines 210, 238-243: the await of Promise.all is rejected
NsCatch ==
    /\ nsPc = "awaiting"
    /\ locState = "rejected" \/ stState = "rejected"
    /\ nsOutcome' = Rejected(NearbyCatch(FirstRejection))
    /\ nsPc' = "done"
    /\ UNCHANGED <<nsArg, locState, locValue, locRaised, stState, stValue, settleOrder,
                   distanceCalls>>
    /\ UNCHANGED <<fbVars, appVars>>

-----------------------------------------------------------------------------
(* getStationValue, lines 246-262, and getStationValueWithFallback, 264-285 *)

StationIds == 1..MaxStations

\* the ranked arrays a caller can pass: stations with distinct dustboy_ids
RankedLists ==
    { l \in UNION { [1..n -> [dustboy_id : StationIds]] : n \in 0..MaxStations } :
        \A i, j \in 1..Len(l) : i # j => l[i] # l[j] }

FallbackArgs == {Undefined} \cup { Arr(l) : l \in RankedLists }

\* the payload of GET /value/{id} for a station that reports
Reading(id) == [type |-> "object", dustboy_id |-> id]

\* response.data of GET /value/{id}
ValueData(id) == {Reading(id), Arr(<<Reading(id)>>), Arr(<<>>), Null}

\* how GET /value/{id} can settle
ValueSettlements(id) ==
    { Resolved([type |-> "object", data |-> d]) : d \in ValueData(id) }
        \cup { Rejected(e) : e \in ExternalFailures(id) }

\* a value is truthy
Truthy(v) == v.type \notin {"undefined", "null"}

\* line 251: !data || (Array.isArray(data) && data.length === 0)
IsEmptyData(data) == ~Truthy(data) \/ (data.type = "array" /\ Len(data.items) = 0)

\* lines 248-261: getStationValue's settlement, given its request's
StationValueSettlement(s) ==
    IF s.kind = "ok"
    THEN IF IsEmptyData(s.value.data)
         THEN Rejected(AsError(NewError("No data available for this station"),
                               "An unexpected error occurred while fetching station value"))
         ELSE Resolved(s.value.data)
    ELSE Rejected(AsError(s.error,
                          "An unexpected error occurred while fetching station value"))

\* line 274: data && (!Array.isArray(data) || data.length > 0)
AcceptsNothing(data) == FALSE
Accepts(data) == Truthy(data) /\ (data.type # "array" \/ Len(data.items) > 0)

\* the for-of iterator's step
SameIndex(i) == i
NextIndex(i) == i + 1

\* line 265: !stations || stations.length === 0
NoneProvided(stations) == ~Truthy(stations) \/ Len(stations.items) = 0

\* line 284: lastError || new Error('No data available from any station')
ExhaustedGeneric(err) == NewError("No data available from any station")
ExhaustedError(err) ==
    IF Truthy(err) THEN err ELSE NewError("No data available from any station")

\* lines 271-273: the dustboy_ids requested before the call's first await: the
\* loop's first iteration awaits the first station's request
RequestsAllAtCall(stations) ==
    [i \in 1..Len(stations.items) |-> stations.items[i].dustboy_id]
RequestsAtCall(stations) == <<stations.items[1].dustboy_id>>

\* lines 264-273: the call runs to its first await: the guard, then the loop's
\* first iteration issues the request for the first station
FbCall(stations) ==
    /\ fbPc = "idle"
    /\ fbStations' = stations
    /\ IF NoneProvided(stations)
       THEN /\ fbPc' = "done"
            /\ fbOutcome' = Rejected(NewError("No stations provided"))
            /\ UNCHANGED <<fbIdx, inFlight, fetchLog>>
       ELSE /\ fbPc' = "awaiting"
            /\ fbIdx' = 1
            /\ inFlight' = { RequestsAtCall(stations)[i] :
                                i \in 1..Len(RequestsAtCall(stations)) }
            /\ fetchLog' = RequestsAtCall(stations)
            /\ UNCHANGED fbOutcome
    /\ lastError' = Null
    /\ UNCHANGED responses
    /\ UNCHANGED <<nsVars, appVars>>

\* lines 249-284: the request in flight settles; getStationValue returns or
\* throws; the loop returns the data, or records the error and moves on to the
\* next station (issuing its request), or leaves the loop and throws
FbSettle(s) ==
    /\ fbPc = "awaiting"
    /\ LET id == fbStations.items[fbIdx].dustboy_id
           r  == StationValueSettlement(s)
           n  == NextIndex(fbIdx)
           e  == IF r.kind = "error"
                 THEN AsError(r.error, "Unknown error occurred")
                 ELSE lastError
       IN  /\ s \in ValueSettlements(id)
           /\ responses' = Append(responses, s)
           /\ IF r.kind = "ok" /\ Accepts(r.value)
              THEN /\ fbPc' = "done"
                   /\ fbOutcome' = r
                   /\ inFlight' = inFlight \ {id}
                   /\ UNCHANGED <<fbIdx, fetchLog, lastError>>
              ELSE /\ lastError' = e
                   /\ IF n <= Len(fbStations.items)
                      THEN /\ fbIdx' = n
                           /\ inFlight' = (inFlight \ {id})
                                             \cup {fbStations.items[n].dustboy_id}
                           /\ fetchLog' = Append(fetchLog, fbStations.items[n].dustboy_id)
                           /\ UNCHANGED <<fbPc, fbOutcome>>
                      ELSE /\ fbPc' = "done"
                           /\ fbOutcome' = Rejected(ExhaustedError(e))
                           /\ inFlight' = inFlight \ {id}
                           /\ UNCHANGED <<fbIdx, fetchLog>>
    /\ UNCHANGED fbStations
    /\ UNCHANGED <<nsVars, appVars>>

-----------------------------------------------------------------------------
(* The App components: fetchData of src/unnamed/part_000 lines 22-28          *)
(* ("stationsOnly"), of src/unnamed/part_001 lines 23-58 ("closestStation")   *)
(* and of src/styles/air-quality-styles.ts lines 176-222 ("fallbackReading"). *)
(* A service call is taken here by the settlements it can have.               *)

AppVariants == {"stationsOnly", "closestStation", "fallbackReading"}

\* the user's position and the directories the App's calls are answered with:
\* up to two stations, at 1.3 km, 79 km or 222 km
AppUserLocation ==
    [type |-> "object", latitude |-> Num(187883), longitude |-> Num(989853)]

AppStationCoords ==
    { <<"18.8", "98.9853">>, <<"19.5", "98.9853">>, <<"20.7883", " 98.9853">> }

AppDirectoryData ==
    {Undefined, Arr(<<>>)}
        \cup { Arr(<<Station(1, c)>>) : c \in AppStationCoords }
        \cup { Arr(<<Station(1, c), Station(2, d)>>) : c, d \in AppStationCoords }

\* the failures getCurrentLocation of lines 181-206 rejects with
LocationRejections ==
    { LocationCatch(e) :
        e \in {NewError("Location permission is required to find nearby stations"),
               NewError("Unable to get location coordinates")}
                  \cup ExternalFailures("position") }

\* how getNearbyStations(arg) can settle, over the given directories
NearbySettlementsOver(directories, userLocation, arg) ==
    { (LET r == ResolveNearby(userLocation, d, EffectiveMaxDistance(arg))
       IN  IF r.kind = "error" THEN Rejected(NearbyCatch(r.error)) ELSE r) :
          d \in directories }
      \cup { Rejected(NearbyCatch(e)) :
                e \in LocationRejections \cup ExternalFailures("stations") }

\* getNearbyStations(): the App passes no argument
NearbySettlements == NearbySettlementsOver(AppDirectoryData, AppUserLocation, Undefined)

\* how getStations of lines 41-67 can settle: its catch rethrows what it caught
GetStationsSettlements ==
    { Resolved(d) : d \in AppDirectoryData }
      \cup { Rejected(e) : e \in {NewError("Location permission denied")}
                                    \cup ExternalFailures("position")
                                    \cup ExternalFailures("stations") }

\* how getStationValueWithFallback(stations) can settle for a non-empty array:
\* with the data of any station, or with the last station's failure
FallbackSettlements(stations) ==
    LET ids  == { stations.items[i].dustboy_id : i \in 1..Len(stations.items) }
        last == stations.items[Len(stations.items)].dustboy_id
    IN  { StationValueSettlement(v) :
            v \in { w \in UNION { ValueSettlements(id) : id \in ids } :
                      StationValueSettlement(w).kind = "ok" } }
          \cup { Rejected(ExhaustedError(AsError(StationValueSettlement(v).error,
                                                 "Unknown error occurred"))) :
                   v \in { w \in ValueSettlements(last) :
                             StationValueSettlement(w).kind = "error" } }

\* err instanceof Error ? err.message : 'Failed to fetch air quality data'
ErrorMessage(err) ==
    IF err.isError THEN err.message ELSE [text |-> "Failed to fetch air quality data"]

\* part_001 lines 39-50: newAirData of the closest station; the station's
\* descriptive fields are stood for by its dustboy_id
AirDataOfStation(station) ==
    [type |-> "object",
     stationName |-> station.dustboy_id,
     coordinates |-> [latitude  |-> parseFloat(Chars(station.dustboy_lat)),
                      longitude |-> parseFloat(Chars(station.dustboy_lng))]]

\* air-quality-styles.ts lines 193-211: newAirData of a station value
AirDataOfReading(stationValue) ==
    [type |-> "object", stationId |-> stationValue.dustboy_id]

Idle == [stage |-> "idle", stations |-> Undefined]
Done == [stage |-> "done", stations |-> Undefined]

\* the state an invocation leaves when it returns or throws
StartedAt(k) == [by |-> k, newest |-> k]
WrittenBy(k) == [by |-> k, newest |-> triggered]

\* fetchData is invoked (useEffect at mount, RefreshControl onRefresh, the
\* "Try Again" button): it sets isLoading and error and runs to its first await
FetchData(k) ==
    /\ k = triggered + 1
    /\ k <= MaxRefreshes
    /\ triggered' = k
    /\ isLoading' = TRUE
    /\ appError' = Null
    /\ refresh' = [refresh EXCEPT ![k] =
                      [stage |-> IF appVariant = "stationsOnly" THEN "getStations"
                                 ELSE "getNearbyStations",
                       stations |-> Undefined]]
    /\ lastWrite' = StartedAt(k)
    /\ UNCHANGED <<appVariant, airData, shown>>
    /\ UNCHANGED <<nsVars, fbVars>>

\* part_000 lines 26-27: getStations settles.  Fulfilled: setIsLoading(false).
\* Rejected: the await throws out of fetchData, which has no try; no state is set.
GetStationsSettles(k, outcome) ==
    /\ refresh[k].stage = "getStations"
    /\ refresh' = [refresh EXCEPT ![k] = Done]
    /\ IF outcome.kind = "ok"
       THEN /\ isLoading' = FALSE
            /\ lastWrite' = WrittenBy(k)
       ELSE UNCHANGED <<isLoading, lastWrite>>
    /\ UNCHANGED <<appVariant, triggered, airData, appError, shown>>
    /\ UNCHANGED <<nsVars, fbVars>>

\* part_001 lines 29-57 and air-quality-styles.ts lines 181-189, 215-221:
\* getNearbyStations settles
NearbySettles(k, outcome) ==
    /\ refresh[k].stage = "getNearbyStations"
    /\ LET failure ==
               IF outcome.kind = "error" THEN outcome.error
               ELSE IF Len(outcome.value.items) = 0
               THEN NewError("No air quality stations found nearby")
               ELSE Null
       IN  IF failure # Null
           THEN \* catch, finally
                /\ appError' = ErrorMessage(failure)
                /\ isLoading' = FALSE
                /\ lastWrite' = WrittenBy(k)
                /\ refresh' = [refresh EXCEPT ![k] = Done]
                /\ UNCHANGED <<airData, shown>>
           ELSE IF appVariant = "closestStation"
           THEN \* nearbyStations[0] is shown; finally
                /\ airData' = AirDataOfStation(outcome.value.items[1])
                /\ shown' = outcome.value
                /\ isLoading' = FALSE
                /\ lastWrite' = WrittenBy(k)
                /\ refresh' = [refresh EXCEPT ![k] = Done]
                /\ UNCHANGED appError
           ELSE \* the next await: getStationValueWithFallback(nearbyStations)
                /\ refresh' = [refresh EXCEPT ![k] =
                                  [stage |-> "getStationValueWithFallback",
                                   stations |-> outcome.value]]
                /\ UNCHANGED <<airData, shown, appError, isLoading, lastWrite>>
    /\ UNCHANGED <<appVariant, triggered>>
    /\ UNCHANGED <<nsVars, fbVars>>

\* how invocation k's getStationValueWithFallback call can settle
PendingFallbackSettlements(k) ==
    IF refresh[k].stage = "getStationValueWithFallback"
    THEN FallbackSettlements(refresh[k].stations)
    ELSE {}

\* air-quality-styles.ts lines 189-221: getStationValueWithFallback settles.
\* A station value that is an array has no us_color, and us_color.replace throws.
FallbackSettles(k, outcome) ==
    /\ refresh[k].stage = "getStationValueWithFallback"
    /\ outcome \in PendingFallbackSettlements(k)
    /\ LET failure ==
               IF outcome.kind = "error" THEN outcome.error
               ELSE IF outcome.value.type = "array"
               THEN NewError("TypeError: cannot read property 'replace'")
               ELSE Null
       IN  IF failure # Null
           THEN /\ appError' = ErrorMessage(failure)
                /\ UNCHANGED <<airData, shown>>
           ELSE /\ airData' = AirDataOfReading(outcome.value)
                /\ shown' = refresh[k].stations
                /\ UNCHANGED appError
    /\ isLoading' = FALSE
    /\ lastWrite' = WrittenBy(k)
    /\ refresh' = [refresh EXCEPT ![k] = Done]
    /\ UNCHANGED <<appVariant, triggered>>
    /\ UNCHANGED <<nsVars, fbVars>>

-----------------------------------------------------------------------------
(* Specifications *)

ServicesIdle ==
    /\ nsPc = "idle"
    /\ nsArg = Undefined
    /\ locState = "none"
    /\ locValue = Undefined
    /\ locRaised = Undefined
    /\ stState = "none"
    /\ stValue = Undefined
    /\ settleOrder = <<>>
    /\ distanceCalls = 0
    /\ nsOutcome = Pending
    /\ fbPc = "idle"
    /\ fbStations = Undefined
    /\ fbIdx = 0
    /\ inFlight = {}
    /\ fetchLog = <<>>
    /\ responses = <<>>
    /\ lastError = Null
    /\ fbOutcome = Pending
    /\ triggered = 0
    /\ refresh = [k \in 1..MaxRefreshes |-> Idle]
    /\ airData = Null
    /\ appError = Null
    /\ isLoading = FALSE
    /\ lastWrite = StartedAt(0)
    /\ shown = Null

Init == ServicesIdle /\ appVariant = "closestStation"

\* one call of getNearbyStations
Next ==
    \/ \E arg \in MaxDistanceArgs : NsCall(arg)
    \/ \E status \in {"granted", "denied"} : LocPermission(status)
    \/ \E location \in UserLocations : LocPosition(location)
    \/ \E error \in ExternalFailures("position") : LocPositionFails(error)
    \/ \E data \in DirectoryData : StationsArrive(data)
    \/ \E error \in ExternalFailures("stations") : StationsFail(error)
    \/ NsResume
    \/ NsCatch

Spec == Init /\ [][Next]_vars

\* one call of getStationValueWithFallback
NextFallback ==
    \/ \E stations \in FallbackArgs : FbCall(stations)
    \/ \E id \in StationIds : \E s \in ValueSettlements(id) : FbSettle(s)

SpecFallback == Init /\ [][NextFallback]_vars

\* an App of any of the three variants, mounted, and its fetchData invocations
InitApp == ServicesIdle /\ appVariant \in AppVariants

NextApp ==
    \/ \E k \in 1..MaxRefreshes : FetchData(k)
    \/ \E k \in 1..MaxRefreshes : \E outcome \in GetStationsSettlements :
          GetStationsSettles(k, outcome)
    \/ \E k \in 1..MaxRefreshes : \E outcome \in NearbySettlements :
          NearbySettles(k, outcome)
    \/ \E k \in 1..MaxRefreshes :
          \E outcome \in PendingFallbackSettlements(k) : FallbackSettles(k, outcome)

SpecApp == InitApp /\ [][NextApp]_vars

-----------------------------------------------------------------------------
(* Properties of getStationValueWithFallback, checked under SpecFallback *)

\* a request settled with non-empty data
Usable(s) ==
    /\ s.kind = "ok"
    /\ s.value.data \notin {Null, Undefined, Arr(<<>>)}

\* the position of the first usable settlement, 0 when there is none
FirstUsable(ss) ==
    IF \E i \in 1..Len(ss) : Usable(ss[i])
    THEN CHOOSE i \in 1..Len(ss) : Usable(ss[i]) /\ \A j \in 1..(i - 1) : ~Usable(ss[j])
    ELSE 0

FbRanked == fbStations.type = "array" /\ Len(fbStations.items) > 0

\* C1: for a non-empty ranked list, whatever the stations answer, the call
\* returns the reading of the first station in list order whose request gave
\* non-empty data, and once that answer is in, no later station is requested.
C1_FirstSuccessReturned ==
    FbRanked =>
        LET k == FirstUsable(responses) IN
        /\ k # 0 =>
              /\ k = Len(responses)
              /\ Len(fetchLog) = k
              /\ fbPc = "done"
              /\ inFlight = {}
              /\ fbOutcome = Resolved(responses[k].value.data)
              /\ fetchLog[k] = fbStations.items[k].dustboy_id
        /\ fbOutcome.kind = "ok" => k # 0

\* C1 witness: three stations, the first answers with empty data, the second
\* with a reading that is returned, the third is never requested
C1_Witness ==
    /\ FbRanked
    /\ Len(fbStations.items) = 3
    /\ fbPc = "done"
    /\ Len(responses) = 2
    /\ responses[1] = Resolved([type |-> "object", data |-> Arr(<<>>)])
    /\ fbOutcome = Resolved(Reading(fbStations.items[2].dustboy_id))
    /\ fetchLog = <<fbStations.items[1].dustboy_id, fbStations.items[2].dustboy_id>>

\* C2: the requests made are those of stations 1..k in list order, one each
\* and none twice; when the first success is at position k exactly k requests
\* are made and the k-th reading is returned.
C2_ExactlyKFetchesInOrder ==
    FbRanked =>
        /\ Len(fetchLog) <= Len(fbStations.items)
        /\ \A i \in 1..Len(fetchLog) : fetchLog[i] = fbStations.items[i].dustboy_id
        /\ \A i, j \in 1..Len(fetchLog) : i # j => fetchLog[i] # fetchLog[j]
        /\ Len(responses) <= Len(fetchLog)
        /\ fbOutcome.kind = "ok" =>
              /\ Len(fetchLog) = FirstUsable(responses)
              /\ Len(responses) = Len(fetchLog)
              /\ fbOutcome.value = responses[Len(fetchLog)].value.data

\* C2 witness: three stations, the first request is rejected, the second gives
\* empty data, the third succeeds: three requests in order, the third returned
C2_Witness ==
    /\ FbRanked
    /\ fbPc = "done"
    /\ Len(fbStations.items) = 3
    /\ Len(fetchLog) = 3
    /\ responses[1].kind = "error"
    /\ responses[2] = Resolved([type |-> "object", data |-> Null])
    /\ fbOutcome = Resolved(Arr(<<Reading(fbStations.items[3].dustboy_id)>>))

\* every station of the list was requested and none gave usable data
AllFailed ==
    /\ FbRanked
    /\ fbPc = "done"
    /\ Len(responses) = Len(fbStations.items)
    /\ FirstUsable(responses) = 0

\* the failure getStationValue raises for a settlement that is not usable
ValueFailure(s) ==
    IF s.kind = "ok" THEN NewError("No data available for this station")
    ELSE IF s.error.isError THEN s.error
    ELSE NewError("An unexpected error occurred while fetching station value")

\* the failures getNearbyStations raises by itself
NearbyFailures ==
    {NoStationsAvailable} \cup { NoStationsInRange(EffectiveMaxDistance(a)) : a \in MaxDistanceArgs }

\* C3 (as stated): when every station fails the call fails with a failure of
\* its own kind, one the caller can tell from NoStationsAvailable, from
\* NoStationsInRange and from the raw error of a single station request.
C3_DistinctNoReadingAvailable ==
    AllFailed =>
        /\ fbOutcome.kind = "error"
        /\ fbOutcome.error \notin NearbyFailures
        /\ \A i \in 1..Len(responses) :
              responses[i].kind = "error" => fbOutcome.error # responses[i].error

\* C3 (amended): when every station fails the call fails with the failure of
\* the last station's getStationValue, rethrown as it is: for a rejected
\* request that is the request's own error.  It differs from
\* NoStationsAvailable and NoStationsInRange.
C3_RethrowsLastFailure ==
    AllFailed =>
        /\ fbOutcome = Rejected(ValueFailure(responses[Len(responses)]))
        /\ fbOutcome.error \notin NearbyFailures

\* C3 witness: two stations fail, the last by a network error, which is what
\* the call is rejected with
C3_Witness ==
    /\ AllFailed
    /\ Len(responses) = 2
    /\ responses[1].kind = "ok"
    /\ responses[2] = Rejected(NetworkError(fbStations.items[2].dustboy_id))
    /\ fbOutcome = responses[2]

-----------------------------------------------------------------------------
(* Properties of getNearbyStations, checked under Spec *)

\* the call has finished after both requests were fulfilled
NsJoinedDone == nsPc = "done" /\ locState = "ok" /\ stState = "ok"

\* ... and the directory was a non-empty array
NsResolved ==
    /\ NsJoinedDone
    /\ stValue.data.type = "array"
    /\ Len(stValue.data.items) > 0

\* the directory's stations and their distances from the user, in metres
Directory == stValue.data.items
DistanceOf(i) == WithDistance(locValue, Directory)[i].distance
UsedMaxDistance == IF nsArg = Undefined THEN Num(DEFAULT_MAX_DISTANCE) ELSE nsArg

IsExactMatch(i) == ~DistanceOf(i).nan /\ DistanceOf(i).val < EXACT_MATCH_THRESHOLD
InRange(i) == ~DistanceOf(i).nan /\ DistanceOf(i).val <= UsedMaxDistance.val * 1000
Beyond(i) == ~DistanceOf(i).nan /\ DistanceOf(i).val > UsedMaxDistance.val * 1000
Malformed(i) ==
    \/ parseFloat(Chars(Directory[i].dustboy_lat)).nan
    \/ parseFloat(Chars(Directory[i].dustboy_lng)).nan

Returned == nsOutcome.value.items
ReturnedIds == { Returned[i].dustboy_id : i \in 1..Len(Returned) }

\* C4: whenever a station of the directory is closer than 0.1 km to the user,
\* the call returns that station alone (a sequence of length 1), however many
\* other stations are within maxDistance.
C4_ExactMatchAlone ==
    (NsResolved /\ \E i \in 1..Len(Directory) : IsExactMatch(i)) =>
        /\ nsOutcome.kind = "ok"
        /\ Len(Returned) = 1
        /\ IsExactMatch(Returned[1].dustboy_id)

\* C5: a returned sequence is non-decreasing in distance, and returned
\* stations of equal distance keep the relative order of the directory.
C5_RankedStable ==
    (NsResolved /\ nsOutcome.kind = "ok") =>
        \A i, j \in 1..Len(Returned) :
            i < j =>
                /\ ~Returned[i].distance.nan /\ ~Returned[j].distance.nan
                /\ Returned[i].distance.val <= Returned[j].distance.val
                /\ Returned[i].distance.val = Returned[j].distance.val
                      => Returned[i].dustboy_id < Returned[j].dustboy_id

\* C5 witness: three stations returned, two of them at the same distance and
\* in directory order, behind a station the directory lists after them
C5_Witness ==
    /\ NsResolved
    /\ nsOutcome.kind = "ok"
    /\ Len(Returned) = 3
    /\ Returned[1].dustboy_id = 3
    /\ Returned[2].distance = Returned[3].distance
    /\ Returned[2].dustboy_id = 1
    /\ Returned[3].dustboy_id = 2

\* C6: when no station is an exact match, the stations returned are exactly
\* the directory's stations whose distance is <= maxDistance, each once.
C6_ExactlyThoseInRange ==
    (NsResolved /\ \A i \in 1..Len(Directory) : ~IsExactMatch(i)) =>
        LET inRange == { i \in 1..Len(Directory) : InRange(i) } IN
        IF inRange = {} THEN nsOutcome.kind = "error"
        ELSE /\ nsOutcome.kind = "ok"
             /\ ReturnedIds = inRange
             /\ Len(Returned) = Cardinality(inRange)
             /\ \A i \in 1..Len(Returned) :
                    Returned[i].distance = DistanceOf(Returned[i].dustboy_id)

\* C6 witness: no exact match, two stations within maxDistance are returned
\* and a third, farther than maxDistance, is not
C6_Witness ==
    /\ NsResolved
    /\ \A i \in 1..Len(Directory) : ~IsExactMatch(i)
    /\ Len(Directory) = 3
    /\ Beyond(2)
    /\ nsOutcome.kind = "ok"
    /\ ReturnedIds = {1, 3}

\* C7: when the directory request yields an empty or a missing list the call
\* fails with NoStationsAvailable, whatever the user's location and
\* maxDistance, computes no distance and returns no sequence.
C7_NoStationsAvailable ==
    (NsJoinedDone /\ stValue.data \in {Undefined, Arr(<<>>)}) =>
        /\ nsOutcome = Rejected(NewError("No stations data available"))
        /\ distanceCalls = 0

\* C7 witness: the directory is an empty array, maxDistance was given as 1
C7_Witness ==
    /\ NsJoinedDone
    /\ stValue.data = Arr(<<>>)
    /\ nsArg = Num(1)
    /\ nsOutcome.kind = "error"

\* C8: when the directory is non-empty and every station is farther than
\* maxDistance the call fails with NoStationsInRange, reporting the
\* maxDistance the filter used; it never returns an empty sequence.
C8_NoStationsInRange ==
    /\ (NsResolved /\ \A i \in 1..Len(Directory) : Beyond(i)) =>
          /\ nsOutcome.kind = "error"
          /\ nsOutcome.error.isError
          /\ nsOutcome.error.message =
                [text |-> "No stations found within ${maxDistance} km",
                 maxDistance |-> UsedMaxDistance]
    /\ nsOutcome.kind = "ok" => Len(Returned) > 0

\* C8 witness: two stations at 1.3 km and 79 km, maxDistance given as 1
C8_Witness ==
    /\ NsResolved
    /\ nsArg = Num(1)
    /\ Len(Directory) = 2
    /\ \A i \in 1..Len(Directory) : Beyond(i)
    /\ DistanceOf(2).val > DistanceOf(1).val
    /\ nsOutcome.kind = "error"

\* the well-formed stations of the directory, in directory order
WellFormed == SelectSeq(Directory, LAMBDA st : ~Malformed(st.dustboy_id))

\* C9: a station whose latitude or longitude does not parse (NaN distance) is
\* never returned and never makes the pass throw: when some well-formed
\* station is within maxDistance, the call returns the well-formed stations
\* within maxDistance, ranked as they are without the malformed ones.
C9_MalformedExcluded ==
    NsResolved =>
        /\ nsOutcome.kind = "ok" =>
              \A i \in 1..Len(Returned) :
                  ~Returned[i].distance.nan /\ ~Malformed(Returned[i].dustboy_id)
        /\ (\E i \in 1..Len(Directory) : ~Malformed(i) /\ InRange(i)) =>
              /\ nsOutcome.kind = "ok"
              /\ ReturnedIds = { i \in 1..Len(Directory) : ~Malformed(i) /\ InRange(i) }
              /\ nsOutcome = ResolveNearby(locValue, Arr(WellFormed), UsedMaxDistance)

\* C9 witness: the first station has a longitude that does not parse (its
\* latitude does); the two well-formed ones after it are returned, the nearer
\* one, listed last, first
C9_Witness ==
    /\ NsResolved
    /\ Len(Directory) = 3
    /\ parseFloat(Chars(Directory[1].dustboy_lng)).nan
    /\ ~parseFloat(Chars(Directory[1].dustboy_lat)).nan
    /\ nsOutcome.kind = "ok"
    /\ Len(Returned) = 2
    /\ Returned[1].dustboy_id = 3
    /\ Returned[2].dustboy_id = 2

\* C10: the location request and the directory request are both started
\* before either completes; the resolution pass runs only after both were
\* fulfilled; and its result is the same whichever completed first.
C10_ConcurrentJoin ==
    /\ (locState = "none") <=> (stState = "none")
    /\ settleOrder # <<>> => locState # "none" /\ stState # "none"
    /\ (nsOutcome.kind = "ok" \/ distanceCalls > 0
          \/ (nsOutcome.kind = "error"
                /\ nsOutcome.error \in {NoStationsAvailable,
                                        NoStationsInRange(UsedMaxDistance)}))
          => locState = "ok" /\ stState = "ok"
    /\ NsJoinedDone =>
          /\ Len(settleOrder) = 2
          /\ nsOutcome =
                (LET r == ResolveNearby(locValue, stValue.data, UsedMaxDistance)
                 IN  IF r.kind = "error" THEN Rejected(NearbyCatch(r.error)) ELSE r)

\* C10 witness: the directory arrived before the location, and two stations
\* were resolved
C10_Witness ==
    /\ NsResolved
    /\ settleOrder = <<"stations", "location">>
    /\ nsOutcome.kind = "ok"
    /\ Len(Returned) = 2

-----------------------------------------------------------------------------
(* Concurrency of getStationValueWithFallback, checked under SpecFallback *)

\* C11: within one call at most one station request is in flight at any
\* moment: the request for station i+1 is issued only after the request for
\* station i has settled, as a failure or with empty data.
C11_OneFetchInFlight ==
    /\ Cardinality(inFlight) <= 1
    /\ Len(fetchLog) - Len(responses) = Cardinality(inFlight)
    /\ \A i \in 2..Len(fetchLog) :
          /\ i - 1 <= Len(responses)
          /\ ~Usable(responses[i - 1])

\* C11 witness: the first station's request was rejected and the second
\* station's request, alone, is in flight
C11_Witness ==
    /\ fbPc = "awaiting"
    /\ Len(fetchLog) = 2
    /\ Len(responses) = 1
    /\ responses[1].kind = "error"
    /\ inFlight = {fetchLog[2]}

-----------------------------------------------------------------------------
(* Failure propagation of getNearbyStations, checked under Spec *)

\* the call has finished and the location, or the directory request, failed
NsFailedDone == nsPc = "done" /\ (locState = "rejected" \/ stState = "rejected")

\* the failure that was raised first: the location's or the directory's
FirstRaised ==
    LET failed == SelectSeq(settleOrder,
                      LAMBDA w : IF w = "location" THEN locState = "rejected"
                                 ELSE stState = "rejected")
    IN  IF Head(failed) = "location" THEN locRaised ELSE stValue

\* C13 (as stated): a failure of the location provider or of the directory
\* request reaches the caller as the failure value that was raised, unchanged
\* by the catch blocks, and no station result is returned.
C13_FailureUnchanged ==
    nsPc = "done" =>
        /\ locState = "rejected" => nsOutcome = Rejected(locRaised)
        /\ stState = "rejected" => nsOutcome = Rejected(stValue)

\* C13 (amended): when the location or the directory request fails, the call
\* is rejected, returning no stations, with the failure that was raised first:
\* as it was raised when it is an Error, and replaced by the catch block's
\* generic Error when it is not one.  A failure raised after that one does not
\* reach the caller.
C13_FirstFailurePropagates ==
    NsFailedDone =>
        /\ nsOutcome.kind = "error"
        /\ distanceCalls = 0
        /\ nsOutcome.error.isError
        /\ FirstRaised.isError => nsOutcome.error = FirstRaised
        /\ ~FirstRaised.isError =>
              nsOutcome.error.message.text \in
                  {"An unexpected error occurred while getting location",
                   "An unexpected error occurred while finding nearby stations"}

\* C13 witness: the permission was denied while the directory request was
\* still in flight; the caller got the permission Error itself
C13_Witness ==
    /\ NsFailedDone
    /\ stState = "pending"
    /\ locRaised = NewError("Location permission is required to find nearby stations")
    /\ nsOutcome = Rejected(locRaised)

-----------------------------------------------------------------------------
(* Exhaustion of getStationValueWithFallback, checked under SpecFallback *)

\* C14: when all candidates are exhausted the failure raised is the last
\* thrown failure, the one of the last station in list order whose request
\* threw; when every candidate failed by an empty result and none by a thrown
\* error, the generic 'No data available from any station' failure is raised.
C14_LastThrownOrGeneric ==
    AllFailed =>
        LET thrown == { i \in 1..Len(responses) : responses[i].kind = "error" } IN
        IF thrown = {}
        THEN fbOutcome = Rejected(NewError("No data available from any station"))
        ELSE LET last == CHOOSE i \in thrown : \A j \in thrown : j <= i
             IN  fbOutcome = Rejected(ValueFailure(responses[last]))

-----------------------------------------------------------------------------
(* Properties of the App components, checked under SpecApp *)

\* C12: when fetchData is invoked while an earlier invocation is in flight,
\* the earlier one never sets airData, error or isLoading afterwards: the App
\* state was always last set by the most recently triggered invocation.
\* Stated of the App of part_001.
C12_NoStaleWrite ==
    appVariant = "closestStation" => lastWrite.by = lastWrite.newest

\* C15: in every App variant, once the invocations of fetchData have run to
\* their end, by success or by failure, isLoading is false again.
C15_LoadingCleared ==
    (triggered > 0 /\ \A k \in 1..triggered : refresh[k].stage = "done")
        => isLoading = FALSE

\* the default radius the App's comment names, in km
COMMENTED_DEFAULT_KM == 10

\* C16: when the App calls getNearbyStations() without an argument only
\* stations within 10 km are returned, and the station shown is the first of
\* them, the one of least distance.
C16_DefaultTenKm ==
    (appVariant = "closestStation" /\ shown # Null) =>
        /\ \A i \in 1..Len(shown.items) :
              WithinKm(shown.items[i].distance, Num(COMMENTED_DEFAULT_KM))
        /\ airData.stationName = shown.items[1].dustboy_id
        /\ \A i \in 1..Len(shown.items) :
              shown.items[1].distance.val <= shown.items[i].distance.val

====
